---- MODULE Spec2Model ----
(***************************************************************************)
(* State-machine model of ueberzug's X11 binding (src/ueberzug/X):         *)
(* the Display object with its two connections (display.c) and the         *)
(* OverlayWindow object with its event handling (window.c), together with  *)
(* the part of the X server the two talk to: the windows, their event      *)
(* masks, shapes and sizes, and the event queue of the event connection.   *)
(***************************************************************************)
EXTENDS Integers, Sequences, FiniteSets, TLC

\* ------------------------------------------------------------------ bounds
\* Largest width/height a parent window takes.
MaxDim == 2
\* Number of windows the server creates in one behaviour (XIDs 1..MaxWindows).
MaxWindows == 2
\* Longest event queue of the event connection.
MaxQueue == 2

\* ---------------------------------------------------------------- universe
\* The WindowObject instances (slots of the allocator), the Python threads,
\* and the application windows an overlay is anchored to.
Objs == {"w1", "w2"}
Threads == {"t1", "t2"}
Parents == {11, 12}
\* A window id that names no window of the server.
BadParent == 13
Ids == 1..MaxWindows
Dims == 1..MaxDim
Sizes == [width : Dims, height : Dims]

\* NULL (a cleared PyObject pointer) and the one Display object of the model.
NULL == "NULL"
TheDisplay == "display"
NoThread == "none"

\* X event masks and event types used by window.c.
NoEventMask == "NoEventMask"
StructureNotifyMask == "StructureNotifyMask"
Expose == "Expose"
ConfigureNotify == "ConfigureNotify"
UnmapNotify == "UnmapNotify"

\* The region of a window whose XShape region was never set: all of it.
Unshaped == <<[x |-> 0, y |-> 0, width |-> -1, height |-> -1]>>

\* An XEvent: type, xany.window, xexpose.count, xconfigure.width/height.
XEvent(type, window, count, width, height) ==
    [type |-> type, window |-> window, count |-> count,
     width |-> width, height |-> height]
NoEvent == XEvent("none", 0, 0, 0, 0)

\* --------------------------------------------------- unsigned int arithmetic
\* unsigned int is 32 bits wide; a value is kept as two 16-bit halves so that
\* the wrap-around of a subtraction is computed exactly.
HalfWord == 2^16
ToUInt(n) == [hi |-> (n \div HalfWord) % HalfWord, lo |-> n % HalfWord]
UIntSub(a, b) ==
    LET lo == a.lo - b.lo
        borrow == IF lo < 0 THEN 1 ELSE 0
    IN  [hi |-> (a.hi - b.hi - borrow + 2 * HalfWord) % HalfWord,
         lo |-> (lo + HalfWord) % HalfWord]
UIntIsZero(a) == a.hi = 0 /\ a.lo = 0
\* "a > 0" on an unsigned int.
UIntIsPositive(a) == a.hi > 0 \/ a.lo > 0

VARIABLES
    display,  \* the DisplayObject: its two connections and the cached screen size
    win,      \* [Objs -> WindowObject]: display_pyobject, parent, window, width, height
    server,   \* the X server as seen through the event connection's requests
    queue,    \* the event queue of the event connection, head first
    gil,      \* the thread holding the interpreter lock, or NoThread
    pc,       \* [Threads -> position of the thread inside its current call]
    cur,      \* [Threads -> the WindowObject the thread's process_event runs on]
    event,    \* [Threads -> the XEvent local of the thread's process_event]
    ret,      \* [Threads -> what the thread's last completed call did]
    created,  \* [Objs -> the XIDs Window_create made for the object]
    reported  \* [Objs -> size of the last ConfigureNotify sent for the object's parent]

vars == <<display, win, server, queue, gil, pc, cur, event, ret, created, reported>>

\* ------------------------------------------------------------ the X server
\* A request issued on the event connection is recorded in server.calls (the
\* requests of the handler that is running) and takes effect in request order.
NoSize == [width |-> 0, height |-> 0]
Log(srv, call) == [srv EXCEPT !.calls = Append(@, call)]

XCreateWindow(srv, width, height) ==
    LET id == srv.next
    IN  [Log(srv, "XCreateWindow") EXCEPT
            !.live = @ \cup {id},
            !.next = @ + 1,
            !.size[id] = [width |-> width, height |-> height],
            !.input[id] = Unshaped,
            !.bounding[id] = Unshaped]

XDestroyWindow(srv, window) ==
    [Log(srv, "XDestroyWindow") EXCEPT
        !.live = @ \ {window},
        !.destroyed[window] = @ + 1]

XResizeWindow(srv, window, width, height) ==
    [Log(srv, "XResizeWindow") EXCEPT
        !.size[window] = [width |-> width, height |-> height]]

XMapWindow(srv, window) == Log(srv, "XMapWindow")
XFlush(srv) == Log(srv, "XFlush")

\* ------------------------------------------------------- window.c helpers
\* A handler works on a context c = [self |-> its WindowObject, srv |-> server].

\* Window_create: seed width/height from the parent's geometry (info
\* connection), then create the child window on the event connection.
\* Neither call's result is checked: for a parent the server does not know,
\* XGetGeometry leaves width/height as they were and XCreateWindow returns the
\* XID Xlib allocated for a window the server never creates.
Window_create(c) ==
    IF c.self.parent \in Parents
    THEN LET geometry == c.srv.size[c.self.parent]
             s1 == Log(c.srv, "XGetGeometry")
             id == s1.next
         IN  [self |-> [c.self EXCEPT !.width = geometry.width,
                                      !.height = geometry.height,
                                      !.window = id],
              srv |-> XCreateWindow(s1, geometry.width, geometry.height)]
    ELSE [self |-> [c.self EXCEPT !.window = c.srv.next],
          srv |-> [Log(Log(c.srv, "XGetGeometry"), "XCreateWindow")
                      EXCEPT !.next = @ + 1]]

\* set_subscribed_events: XChangeWindowAttributes(CWEventMask) replaces the
\* event mask this connection has selected on the window.
set_subscribed_events(srv, window, event_mask) ==
    IF window \in Parents
    THEN [Log(srv, "XChangeWindowAttributes") EXCEPT
             !.event_mask[window] = event_mask]
    ELSE Log(srv, "XChangeWindowAttributes")

Window_finalise_leak(c) ==
    [self |-> [c.self EXCEPT !.display_pyobject = NULL, !.window = 0],
     srv |-> c.srv]
Window_finalise_keepId(c) ==
    [self |-> [c.self EXCEPT !.display_pyobject = NULL],
     srv |-> IF c.self.window # 0
             THEN XFlush(XDestroyWindow(
                      set_subscribed_events(c.srv, c.self.parent, NoEventMask),
                      c.self.window))
             ELSE c.srv]
Window_finalise(c) ==
    LET s == IF c.self.window # 0
             THEN XFlush(XDestroyWindow(
                      set_subscribed_events(c.srv, c.self.parent, NoEventMask),
                      c.self.window))
             ELSE c.srv
    IN  [self |-> [c.self EXCEPT !.display_pyobject = NULL, !.window = 0],
         srv |-> s]

\* XShapeCombineRectangles(ShapeSet) replaces the region of the given kind.
\* On a window the server does not have the request changes nothing.
set_xshape_mask(srv, window, kind, area) ==
    IF window \notin srv.live
    THEN Log(srv, "XShapeCombineRectangles")
    ELSE IF kind = "ShapeInput"
    THEN [Log(srv, "XShapeCombineRectangles") EXCEPT !.input[window] = area]
    ELSE [Log(srv, "XShapeCombineRectangles") EXCEPT !.bounding[window] = area]

set_input_mask(srv, window, area) == set_xshape_mask(srv, window, "ShapeInput", area)

set_visibility_mask_input(srv, window, area) ==
    set_xshape_mask(srv, window, "ShapeInput", area)
set_visibility_mask(srv, window, area) ==
    set_xshape_mask(srv, window, "ShapeBounding", area)

\* A freshly allocated WindowObject (PyType_GenericNew zero-fills it).
NewWindowObject ==
    [display_pyobject |-> NULL, parent |-> 0, window |-> 0, width |-> 0, height |-> 0]

\* What a completed call leaves behind for the caller to observe: the call, its
\* object and return value, the event it read last (peeked or removed), the
\* object's fields before the call, and the requests it issued.
Returned(op, o, value, ev, before, calls) ==
    [op |-> op, obj |-> o, value |-> value, event |-> ev, before |-> before,
     calls |-> calls, data |-> <<>>]
\* The same for a Display method, whose result is a list of numbers.
DisplayReturned(op, value, data) ==
    [op |-> op, obj |-> "none", value |-> value, event |-> NoEvent,
     before |-> NewWindowObject, calls |-> <<>>, data |-> data]
\* The same for a query on the info connection, with the threads that sat in a
\* blocking read while it was served.
QueryReturned(op, value, data, waiting) ==
    [op |-> op, obj |-> "none", value |-> value, event |-> NoEvent,
     before |-> NewWindowObject, calls |-> <<>>, data |-> data,
     waiting |-> waiting]
NoCall == Returned("none", "none", "None", NoEvent, NewWindowObject, <<>>)

\* End of a handler: the requests it issued move into the thread's record.
Done(srv) == [srv EXCEPT !.calls = <<>>]

Init ==
    /\ display = [event_display |-> "open", info_display |-> "open",
                  screen_width |-> 4, screen_height |-> 3, ob_refcnt |-> 1]
    /\ win = [o \in Objs |-> NewWindowObject]
    /\ server = [live |-> {},
                 destroyed |-> [i \in Ids |-> 0],
                 next |-> 1,
                 event_mask |-> [p \in Parents |-> NoEventMask],
                 size |-> [i \in Ids \cup Parents |->
                              IF i \in Parents THEN [width |-> 1, height |-> 1]
                              ELSE NoSize],
                 input |-> [i \in Ids |-> Unshaped],
                 bounding |-> [i \in Ids |-> Unshaped],
                 calls |-> <<>>]
    /\ queue = <<>>
    /\ gil = NoThread
    /\ pc = [t \in Threads |-> "idle"]
    /\ cur = [t \in Threads |-> "w1"]
    /\ event = [t \in Threads |-> NoEvent]
    /\ ret = [t \in Threads |-> NoCall]
    /\ created = [o \in Objs |-> {}]
    /\ reported = [o \in Objs |-> NoSize]

\* ------------------------------------------------------ blocking reads
\* The connection XPeekEvent / XNextEvent of the two Display methods read.
EventWaitDisplay_info == "info_display"
EventWaitDisplay == "event_display"

\* Events arrive on the event connection only: nothing is selected on the
\* info connection.
QueueOf(connection) == IF connection = "event_display" THEN queue ELSE <<>>

\* The connection a thread is reading events from, by its position.
ReadsOn(t) ==
    IF pc[t] \in {"wait_peek", "discard_next"} THEN EventWaitDisplay
    ELSE IF pc[t] \in {"peek", "next"} THEN "event_display"
    ELSE "none"

\* The thread sits in a blocking read with nothing to return.
Blocked(t) == ReadsOn(t) # "none" /\ QueueOf(ReadsOn(t)) = <<>>

Waiting == {u \in Threads : Blocked(u)}

\* display.c:29-34: a request for information cannot be served on a
\* connection another thread is blocked listening on.
CanQuery(connection) == \A u \in Threads : ~(Blocked(u) /\ ReadsOn(u) = connection)

\* ------------------------------------------------------------ the handlers
\* A thread runs a handler only while it holds the interpreter lock.  A handler
\* that never releases the lock is one step; gil stays NoThread around it.
CanRun(t) == pc[t] = "idle" /\ gil = NoThread

Ctx(o) == [self |-> win[o], srv |-> server]

\* A process_event call on the object is under way (it holds a reference, and
\* the interpreter lock, until it returns).
InProcessEvent(o) == \E u \in Threads : pc[u] \in {"peek", "next"} /\ cur[u] = o

\* The arguments of OverlayWindow(display, parent): well-formed, or not.
InitArgs == [ok : {TRUE}, parent : Parents] \cup [ok : {FALSE}, parent : {0}]
\* The same, with a parent id the server does not know.
InitArgsAny == InitArgs \cup [ok : {TRUE}, parent : {BadParent}]

\* What Xlib's error handler does with the BadWindow error that the reply of
\* XGetGeometry carries: the default handler ends the process; a handler the
\* application installed returns, and the call returns 0.
XErrorHandlers == {"exit", "return"}

\* The part of Window_init after argument parsing.
Window_init_body(c, parent) ==
    LET c1 == IF c.self.display_pyobject # NULL THEN Window_finalise(c) ELSE c
        c2 == [c1 EXCEPT !.self.display_pyobject = TheDisplay,
                         !.self.parent = parent]
        c3 == Window_create(c2)
        s4 == set_subscribed_events(c3.srv, c3.self.parent, StructureNotifyMask)
        s5 == set_input_mask(s4, c3.self.window, <<>>)
        s6 == set_visibility_mask(s5, c3.self.window, <<>>)
    IN  [c3 EXCEPT !.srv = XMapWindow(s6, c3.self.window)]

\* Window_init up to the reply of XGetGeometry.
Window_init_head(c, parent) ==
    LET c1 == IF c.self.display_pyobject # NULL THEN Window_finalise(c) ELSE c
    IN  [self |-> [c1.self EXCEPT !.display_pyobject = TheDisplay,
                                  !.parent = parent],
         srv |-> Log(c1.srv, "XGetGeometry")]

Window_init(t, o, a) ==
    /\ CanRun(t)
    /\ ~InProcessEvent(o)
    /\ IF ~a.ok
       THEN /\ ret' = [ret EXCEPT ![t] =
                          Returned("init", o, "Error", NoEvent, win[o], <<>>)]
            /\ UNCHANGED <<win, server, created, reported, pc>>
       ELSE /\ server.next <= MaxWindows
            /\ CanQuery("info_display")
            /\ reported' = [reported EXCEPT ![o] = NoSize]
            /\ \E handler \in XErrorHandlers :
                  IF a.parent \notin Parents /\ handler = "exit"
                  THEN LET c == Window_init_head(Ctx(o), a.parent)
                       IN  /\ win' = [win EXCEPT ![o] = c.self]
                           /\ server' = Done(c.srv)
                           /\ ret' = [ret EXCEPT ![t] =
                                         Returned("init", o, "exit", NoEvent,
                                                  win[o], c.srv.calls)]
                           /\ pc' = [u \in Threads |-> "exited"]
                           /\ UNCHANGED created
                  ELSE LET c == Window_init_body(Ctx(o), a.parent)
                       IN  /\ win' = [win EXCEPT ![o] = c.self]
                           /\ server' = Done(c.srv)
                           /\ created' = [created EXCEPT ![o] =
                                             @ \cup ({c.self.window} \cap c.srv.live)]
                           /\ ret' = [ret EXCEPT ![t] =
                                         Returned("init", o, "Success", NoEvent,
                                                  win[o], c.srv.calls)]
                           /\ UNCHANGED pc
    /\ UNCHANGED <<display, queue, gil, cur, event>>

\* Window_dealloc: finalise, then tp_free.  The slot keeps the finalised
\* object's fields until Window_init runs on the next object allocated in it.
Window_dealloc(t, o) ==
    /\ CanRun(t)
    /\ ~InProcessEvent(o)
    /\ LET c == Window_finalise(Ctx(o))
       IN  /\ win' = [win EXCEPT ![o] = c.self]
           /\ server' = Done(c.srv)
           /\ ret' = [ret EXCEPT ![t] =
                         Returned("dealloc", o, "None", NoEvent, win[o],
                                  c.srv.calls)]
    /\ reported' = [reported EXCEPT ![o] = NoSize]
    /\ UNCHANGED <<display, queue, gil, pc, cur, event, created>>

Window_draw(t, o) ==
    /\ CanRun(t)
    /\ win[o].display_pyobject # NULL
    /\ LET s == XFlush(server)
       IN  /\ server' = Done(s)
           /\ ret' = [ret EXCEPT ![t] =
                         Returned("draw", o, "None", NoEvent, win[o], s.calls)]
    /\ UNCHANGED <<display, win, queue, gil, pc, cur, event, created, reported>>

\* ---------------------------------------------------- set_visibility_mask
\* A Python object handed in as a list element: a tuple of ints, or not.
PyTuple(items) == [tuple |-> TRUE, items |-> items]
PyOther == [tuple |-> FALSE, items |-> <<>>]

SHRT_MIN == -32768
SHRT_MAX == 32767

\* PyArg_ParseTuple(py_rectangle, "hhHH", ...): four items; 'h' checks the
\* range of a short, 'H' stores the value modulo 2^16 without a check.
ParseTuple_hhHH(item) ==
    LET v == item.items
        ok == /\ Len(v) = 4
              /\ v[1] \in SHRT_MIN..SHRT_MAX
              /\ v[2] \in SHRT_MIN..SHRT_MAX
    IN  IF ok
        THEN [ok |-> TRUE,
              rect |-> [x |-> v[1], y |-> v[2],
                        width |-> ((v[3] % HalfWord) + HalfWord) % HalfWord,
                        height |-> ((v[4] % HalfWord) + HalfWord) % HalfWord]]
        ELSE [ok |-> FALSE, rect |-> [x |-> 0, y |-> 0, width |-> 0, height |-> 0]]

\* The loop over py_area: the XRectangle array, or the first element that
\* raises (0 when none does).
ParseArea(py_area) ==
    LET Bad(i) == ~py_area[i].tuple \/ ~ParseTuple_hhHH(py_area[i]).ok
        bad == {i \in 1..Len(py_area) : Bad(i)}
    IN  [raised |-> IF bad = {} THEN 0 ELSE CHOOSE i \in bad : \A j \in bad : i <= j,
         area |-> [i \in 1..Len(py_area) |-> ParseTuple_hhHH(py_area[i]).rect]]

Window_set_visibility_mask(t, o, py_area) ==
    /\ CanRun(t)
    /\ win[o].display_pyobject # NULL
    /\ LET parsed == ParseArea(py_area)
           s == IF parsed.raised = 0
                THEN set_visibility_mask(server, win[o].window, parsed.area)
                ELSE server
       IN  /\ server' = Done(s)
           /\ ret' = [ret EXCEPT ![t] =
                         [Returned("set_visibility_mask", o,
                                   IF parsed.raised = 0 THEN "None" ELSE "ValueError",
                                   NoEvent, win[o], s.calls)
                             EXCEPT !.data = py_area]]
    /\ UNCHANGED <<display, win, queue, gil, pc, cur, event, created, reported>>

\* ------------------------------------------------------------ process_event
\* PyObject_CallMethod(self, "draw"): Window_draw flushes the connection.
CallDraw(srv) == XFlush(Log(srv, "draw"))

\* The test after XPeekEvent: the event is for this window.
Accepts_anyWindow(self, ev) == ev.type = Expose \/ ev.type = ConfigureNotify
Accepts(self, ev) ==
    \/ ev.type = Expose /\ ev.window = self.window
    \/ ev.type = ConfigureNotify /\ ev.window = self.parent

\* "delta_width != 0 || delta_height != 0": the size changed.
NeedsResize_always(delta_width, delta_height) == TRUE
NeedsResize(delta_width, delta_height) ==
    ~UIntIsZero(delta_width) \/ ~UIntIsZero(delta_height)

\* "delta_width > 0 || delta_height > 0" on the unsigned deltas.
NeedsRedraw_both(delta_width, delta_height) ==
    UIntIsPositive(delta_width) /\ UIntIsPositive(delta_height)
NeedsRedraw(delta_width, delta_height) ==
    UIntIsPositive(delta_width) \/ UIntIsPositive(delta_height)

\* The switch on the type of the event XNextEvent returned.
Dispatch_drawEveryExpose(c, ev) ==
    IF ev.type = Expose THEN [c EXCEPT !.srv = CallDraw(c.srv)] ELSE c
Dispatch(c, ev) ==
    IF ev.type = Expose
    THEN IF ev.count = 0 THEN [c EXCEPT !.srv = CallDraw(c.srv)] ELSE c
    ELSE IF ev.type = ConfigureNotify
    THEN LET delta_width == UIntSub(ToUInt(ev.width), ToUInt(c.self.width))
             delta_height == UIntSub(ToUInt(ev.height), ToUInt(c.self.height))
             c1 == IF NeedsResize(delta_width, delta_height)
                   THEN [self |-> [c.self EXCEPT !.width = ev.width,
                                                 !.height = ev.height],
                         srv |-> XResizeWindow(c.srv, c.self.window,
                                               ev.width, ev.height)]
                   ELSE c
         IN  IF NeedsRedraw(delta_width, delta_height)
             THEN [c1 EXCEPT !.srv = CallDraw(c1.srv)]
             ELSE [c1 EXCEPT !.srv = XFlush(c1.srv)]
    ELSE c

\* XPending: nothing queued returns False at once; otherwise go on to the peek.
Window_process_event_pending(t, o) ==
    /\ CanRun(t)
    /\ win[o].display_pyobject # NULL
    /\ IF queue = <<>>
       THEN /\ ret' = [ret EXCEPT ![t] =
                          Returned("process_event", o, "False", NoEvent, win[o], <<>>)]
            /\ UNCHANGED <<gil, pc, cur>>
       ELSE /\ gil' = t
            /\ pc' = [pc EXCEPT ![t] = "peek"]
            /\ cur' = [cur EXCEPT ![t] = o]
            /\ UNCHANGED ret
    /\ UNCHANGED <<display, win, server, queue, event, created, reported>>

\* XPeekEvent blocks until the queue holds an event and copies its head.
Window_process_event_peek(t) ==
    /\ pc[t] = "peek"
    /\ queue # <<>>
    /\ LET o == cur[t]
           ev == Head(queue)
       IN  IF Accepts(win[o], ev)
           THEN /\ pc' = [pc EXCEPT ![t] = "next"]
                /\ event' = [event EXCEPT ![t] = ev]
                /\ UNCHANGED <<gil, ret>>
           ELSE /\ pc' = [pc EXCEPT ![t] = "idle"]
                /\ gil' = NoThread
                /\ ret' = [ret EXCEPT ![t] =
                              Returned("process_event", o, "False", ev, win[o], <<>>)]
                /\ UNCHANGED event
    /\ UNCHANGED <<display, win, server, queue, cur, created, reported>>

\* XNextEvent blocks until the queue holds an event, removes its head, and the
\* switch dispatches on the event removed.
Window_process_event_next(t) ==
    /\ pc[t] = "next"
    /\ queue # <<>>
    /\ LET o == cur[t]
           ev == Head(queue)
           c == Dispatch(Ctx(o), ev)
       IN  /\ win' = [win EXCEPT ![o] = c.self]
           /\ server' = Done(c.srv)
           /\ ret' = [ret EXCEPT ![t] =
                         Returned("process_event", o, "True", ev, win[o], c.srv.calls)]
    /\ queue' = Tail(queue)
    /\ pc' = [pc EXCEPT ![t] = "idle"]
    /\ gil' = NoThread
    /\ event' = [event EXCEPT ![t] = NoEvent]
    /\ UNCHANGED <<display, cur, created, reported>>

\* -------------------------------------------- wait_for_event, discard_event
\* Py_BEGIN_ALLOW_THREADS: the lock is released before the thread blocks.
Display_wait_for_event_begin(t) ==
    /\ CanRun(t)
    /\ pc' = [pc EXCEPT ![t] = "wait_peek"]
    /\ gil' = NoThread
    /\ UNCHANGED <<display, win, server, queue, cur, event, ret, created, reported>>

\* XPeekEvent returns once an event is queued and leaves it there.
Display_wait_for_event_peek_consume(t) ==
    /\ pc[t] = "wait_peek"
    /\ QueueOf(EventWaitDisplay) # <<>>
    /\ queue' = Tail(queue)
    /\ pc' = [pc EXCEPT ![t] = "wait_end"]
    /\ UNCHANGED <<display, win, server, gil, cur, event, ret, created, reported>>
Display_wait_for_event_peek(t) ==
    /\ pc[t] = "wait_peek"
    /\ QueueOf(EventWaitDisplay) # <<>>
    /\ pc' = [pc EXCEPT ![t] = "wait_end"]
    /\ UNCHANGED <<display, win, server, queue, gil, cur, event, ret, created, reported>>

\* Py_END_ALLOW_THREADS takes the lock again; the method returns None.
Display_wait_for_event_end(t) ==
    /\ pc[t] = "wait_end"
    /\ gil = NoThread
    /\ pc' = [pc EXCEPT ![t] = "idle"]
    /\ ret' = [ret EXCEPT ![t] = DisplayReturned("wait_for_event", "None", <<>>)]
    /\ UNCHANGED <<display, win, server, queue, gil, cur, event, created, reported>>

Display_discard_event_begin(t) ==
    /\ CanRun(t)
    /\ pc' = [pc EXCEPT ![t] = "discard_next"]
    /\ gil' = NoThread
    /\ UNCHANGED <<display, win, server, queue, cur, event, ret, created, reported>>

\* XNextEvent returns once an event is queued and removes the head.
Display_discard_event_next(t) ==
    /\ pc[t] = "discard_next"
    /\ QueueOf(EventWaitDisplay) # <<>>
    /\ queue' = Tail(queue)
    /\ event' = [event EXCEPT ![t] = Head(queue)]
    /\ pc' = [pc EXCEPT ![t] = "discard_end"]
    /\ UNCHANGED <<display, win, server, gil, cur, ret, created, reported>>

Display_discard_event_end(t) ==
    /\ pc[t] = "discard_end"
    /\ gil = NoThread
    /\ pc' = [pc EXCEPT ![t] = "idle"]
    /\ ret' = [ret EXCEPT ![t] = DisplayReturned("discard_event", "None", <<>>)]
    /\ event' = [event EXCEPT ![t] = NoEvent]
    /\ UNCHANGED <<display, win, server, queue, gil, cur, created, reported>>

\* ------------------------------------------------------------ the server's events
\* The parent is configured (moved or resized).  The server sends a
\* ConfigureNotify to the event connection if it selected StructureNotify.
ParentConfigure(p, size) ==
    /\ server' = [server EXCEPT !.size[p] = size]
    /\ IF server.event_mask[p] = StructureNotifyMask
       THEN /\ Len(queue) < MaxQueue
            /\ queue' = Append(queue,
                   XEvent(ConfigureNotify, p, 0, size.width, size.height))
            /\ reported' = [o \in Objs |->
                   IF win[o].window # 0 /\ win[o].parent = p
                   THEN size ELSE reported[o]]
       ELSE UNCHANGED <<queue, reported>>
    /\ UNCHANGED <<display, win, gil, pc, cur, event, ret, created>>

\* Another StructureNotify event of the parent.
ParentUnmap(p) ==
    /\ server.event_mask[p] = StructureNotifyMask
    /\ Len(queue) < MaxQueue
    /\ queue' = Append(queue, XEvent(UnmapNotify, p, 0, 0, 0))
    /\ UNCHANGED <<display, win, server, gil, pc, cur, event, ret, created, reported>>

\* An overlay (created with ExposureMask) is exposed; count more follow.
WindowExpose(id, count) ==
    /\ id \in server.live
    /\ Len(queue) < MaxQueue
    /\ queue' = Append(queue, XEvent(Expose, id, count, 0, 0))
    /\ UNCHANGED <<display, win, server, gil, pc, cur, event, ret, created, reported>>

\* ------------------------------------------------------ the info connection
\* The four atoms Display_init interns, and the windows of the server's tree
\* with the properties each carries.
Atoms == {"WM_CLASS", "WM_NAME", "WM_LOCALE_NAME", "WM_NORMAL_HINTS"}
TreeWindows == {21, 22, 23, 24, 25}
ServerProps(w) ==
    CASE w = 21 -> {"WM_CLASS"}
      [] w = 22 -> {}
      [] w = 23 -> {"WM_NORMAL_HINTS"}
      [] w = 24 -> {"WM_LOCALE_NAME"}
      [] w = 25 -> {"WM_NAME", "WM_CLASS"}
      [] OTHER -> {}

\* XGetWindowProperty(..., AnyPropertyType, ...) for a window of the tree:
\* Success, with type None and format 0 when the property does not exist.
XGetWindowProperty(w, property) ==
    IF w \notin TreeWindows
    THEN [status |-> "BadWindow", type |-> "None", format |-> 0]
    ELSE IF property \in ServerProps(w)
    THEN [status |-> "Success", type |-> "STRING", format |-> 8]
    ELSE [status |-> "Success", type |-> "None", format |-> 0]

has_property_anyReply(w, property) ==
    XGetWindowProperty(w, property).status = "Success"
has_property(w, property) ==
    LET r == XGetWindowProperty(w, property)
    IN  r.status = "Success" /\ ~(r.type = "None" /\ r.format = 0)

\* The replies XQueryTree can give: status 0, or the children (NULL when none).
QueryTreeReplies ==
    {[status |-> 0, children |-> <<>>],
     [status |-> 1, children |-> <<>>],
     [status |-> 1, children |-> <<21, 22, 23>>],
     [status |-> 1, children |-> <<24, 22, 25, 21>>]}

RECURSIVE FilterChildren(_)
FilterChildren(children) ==
    IF children = <<>> THEN <<>>
    ELSE LET w == Head(children)
             is_helper_window == /\ ~has_property(w, "WM_CLASS")
                                 /\ ~has_property(w, "WM_NAME")
                                 /\ ~has_property(w, "WM_LOCALE_NAME")
                                 /\ ~has_property(w, "WM_NORMAL_HINTS")
         IN  IF is_helper_window THEN FilterChildren(Tail(children))
             ELSE <<w>> \o FilterChildren(Tail(children))

Display_get_child_window_ids(t, reply) ==
    /\ CanRun(t)
    /\ CanQuery("info_display")
    /\ ret' = [ret EXCEPT ![t] =
                  IF reply.status = 0
                  THEN QueryReturned("get_child_window_ids", "OSError", <<>>, Waiting)
                  ELSE QueryReturned("get_child_window_ids", "list",
                                     FilterChildren(reply.children), Waiting)]
    /\ UNCHANGED <<display, win, server, queue, gil, pc, cur, event, created, reported>>

\* The replies XResQueryClientIds can give: a status and the client ids.
XRES_CLIENT_ID_XID == "XID"
XRES_CLIENT_ID_PID == "PID"
ClientIdReplies ==
    {[status |-> "BadValue", ids |-> <<>>],
     [status |-> "Success", ids |-> <<>>],
     [status |-> "Success", ids |-> <<[type |-> XRES_CLIENT_ID_XID, value |-> 7]>>],
     [status |-> "Success", ids |-> <<[type |-> XRES_CLIENT_ID_XID, value |-> 7],
                                      [type |-> XRES_CLIENT_ID_PID, value |-> 42]>>]}

INVALID_PID == -1

LastPid_anyType(ids, window_creator_pid) ==
    IF ids = <<>> THEN window_creator_pid ELSE ids[Len(ids)].value
RECURSIVE LastPid(_, _)
LastPid(ids, window_creator_pid) ==
    IF ids = <<>> THEN window_creator_pid
    ELSE LastPid(Tail(ids),
                 IF Head(ids).type = XRES_CLIENT_ID_PID
                 THEN Head(ids).value ELSE window_creator_pid)

Display_get_window_pid(t, reply) ==
    /\ CanRun(t)
    /\ CanQuery("info_display")
    /\ ret' = [ret EXCEPT ![t] =
                  IF reply.status # "Success"
                  THEN QueryReturned("get_window_pid", "None", <<>>, Waiting)
                  ELSE LET pid == LastPid(reply.ids, INVALID_PID)
                       IN  IF pid # INVALID_PID
                           THEN QueryReturned("get_window_pid", "int", <<pid>>, Waiting)
                           ELSE QueryReturned("get_window_pid", "None", <<>>, Waiting)]
    /\ UNCHANGED <<display, win, server, queue, gil, pc, cur, event, created, reported>>

\* ------------------------------------------------- the Display's lifetime
\* A freshly allocated DisplayObject (PyType_GenericNew zero-fills it); the
\* slot of a freed one looks the same, with no reference left.
NewDisplayObject ==
    [event_display |-> NULL, info_display |-> NULL,
     screen_width |-> 0, screen_height |-> 0, ob_refcnt |-> 0]

\* What the process finds when it connects: whether XOpenDisplay succeeds for
\* the first and for the second connection, whether the server has the XRes
\* and the MIT-SHM extension, and the size of its default screen.
Screens == {[width |-> 4, height |-> 3], [width |-> 5, height |-> 5]}
XServers ==
    [event : BOOLEAN, info : BOOLEAN, XRes : BOOLEAN, XShm : BOOLEAN,
     screen : Screens]

\* REOPEN_DISPLAY: close the connection if there is one, then XOpenDisplay.
REOPEN_DISPLAY(handle, opens) == IF opens THEN "open" ELSE NULL
\* CLOSE_DISPLAY: close the connection if there is one and clear the field.
CLOSE_DISPLAY(handle) == NULL

CouldNotOpen == "OSError: could not open a connection to the X server"
XResRequired == "OSError: the extension XRes is required"
XextRequired == "OSError: the extension Xext is required"

\* Display_init on the object self against the server x: the object it
\* leaves and what it returns.  raiseInit returns at once.
Display_init_body(self, x) ==
    LET s1 == [self EXCEPT
                  !.event_display = REOPEN_DISPLAY(@, x.event),
                  !.info_display = REOPEN_DISPLAY(@, x.info)]
    IN  IF s1.event_display = NULL \/ s1.info_display = NULL
        THEN [self |-> s1, value |-> CouldNotOpen]
        ELSE IF ~x.XRes THEN [self |-> s1, value |-> XResRequired]
        ELSE IF ~x.XShm THEN [self |-> s1, value |-> XextRequired]
        ELSE [self |-> [s1 EXCEPT !.screen_width = x.screen.width,
                                  !.screen_height = x.screen.height],
              value |-> "Success"]

\* Display_dealloc: close both connections, then tp_free.
Display_dealloc_body(self) ==
    [NewDisplayObject EXCEPT
        !.event_display = CLOSE_DISPLAY(self.event_display),
        !.info_display = CLOSE_DISPLAY(self.info_display)]

\* No thread is inside a call and no window refers to the Display.
DisplayUnused ==
    /\ \A u \in Threads : pc[u] = "idle"
    /\ \A o \in Objs : win[o].display_pyobject = NULL

\* Display(): tp_new, then tp_init; when tp_init fails the new object loses
\* its only reference and tp_dealloc runs before the error reaches the caller.
Display_new(t, x) ==
    /\ CanRun(t)
    /\ display.ob_refcnt = 0
    /\ LET r == Display_init_body([NewDisplayObject EXCEPT !.ob_refcnt = 1], x)
       IN  /\ display' = IF r.value = "Success" THEN r.self
                         ELSE Display_dealloc_body(r.self)
           /\ ret' = [ret EXCEPT ![t] = DisplayReturned("Display", r.value, <<>>)]
    /\ UNCHANGED <<win, server, queue, gil, pc, cur, event, created, reported>>

\* Display.__init__ on a Display that exists: tp_init alone.
Display_init(t, x) ==
    /\ CanRun(t)
    /\ display.ob_refcnt = 1
    /\ DisplayUnused
    /\ LET r == Display_init_body(display, x)
       IN  /\ display' = r.self
           /\ ret' = [ret EXCEPT ![t] = DisplayReturned("init", r.value, <<>>)]
    /\ UNCHANGED <<win, server, queue, gil, pc, cur, event, created, reported>>

\* The last reference to the Display goes away.
Display_dealloc(t) ==
    /\ CanRun(t)
    /\ display.ob_refcnt = 1
    /\ DisplayUnused
    /\ display' = Display_dealloc_body(display)
    /\ ret' = [ret EXCEPT ![t] = DisplayReturned("dealloc", "None", <<>>)]
    /\ UNCHANGED <<win, server, queue, gil, pc, cur, event, created, reported>>

\* The getters, and the getter Display_properties lists under each name.
Display_get_screen_width(self) == self.screen_width
Display_get_screen_height(self) == self.screen_height
Display_properties(name, self) ==
    CASE name = "screen_width" -> Display_get_screen_width(self)
      [] name = "screen_height" -> Display_get_screen_width(self)

PropertyNames == {"screen_width", "screen_height"}

\* Reading an attribute of the Display calls the getter listed for its name.
Display_getattr(t, name) ==
    /\ CanRun(t)
    /\ display.ob_refcnt = 1
    /\ ret' = [ret EXCEPT ![t] =
                  DisplayReturned(name, "int", <<Display_properties(name, display)>>)]
    /\ UNCHANGED <<display, win, server, queue, gil, pc, cur, event, created, reported>>

\* ------------------------------------------------------------ specifications
\* The rectangle lists handed to set_visibility_mask.
Areas ==
    {<<>>,
     <<PyTuple(<<0, 0, 1, 1>>)>>,
     <<PyTuple(<<0, 0, 1, 1>>), PyTuple(<<1, 0, 1, 2>>)>>,
     <<PyTuple(<<0, 0, 1, 1>>), PyOther>>}

\* The same, with lists that hold a malformed element: not a tuple, three
\* items, a position beyond a short, an extent beyond an unsigned short.
AreasAny ==
    Areas \cup
    {<<PyTuple(<<0, 0, 1>>)>>,
     <<PyTuple(<<0, 0, 1, 1>>), PyTuple(<<40000, 0, 1, 1>>)>>,
     <<PyTuple(<<0, 0, 1, 1>>), PyTuple(<<0, 0, 65537, 1>>)>>,
     <<PyTuple(<<0, 0, 1, -1>>)>>}

\* The steps of the server, whatever the program does.
ServerStep ==
    \/ \E p \in Parents, size \in Sizes : ParentConfigure(p, size)
    \/ \E p \in Parents : ParentUnmap(p)
    \/ \E id \in Ids, count \in {0, 1} : WindowExpose(id, count)

\* One thread creates, masks, redraws and finalises the overlay windows.
Next ==
    \/ \E o \in Objs, a \in InitArgs : Window_init("t1", o, a)
    \/ \E o \in Objs : Window_dealloc("t1", o)
    \/ \E o \in Objs, area \in Areas : Window_set_visibility_mask("t1", o, area)
    \/ \E o \in Objs : Window_draw("t1", o)

Spec == Init /\ [][Next]_vars

\* The same thread, handing in arguments of every kind: a parent id the
\* server does not know, rectangle lists with malformed elements.
NextInvalid ==
    \/ \E o \in Objs, a \in InitArgsAny : Window_init("t1", o, a)
    \/ \E o \in Objs : Window_dealloc("t1", o)
    \/ \E o \in Objs, area \in AreasAny : Window_set_visibility_mask("t1", o, area)
    \/ \E o \in Objs : Window_draw("t1", o)

SpecInvalid == Init /\ [][NextInvalid]_vars

\* One window, bound and rebound to either parent by one thread that runs its
\* process_event while the server sends events.
NextEvents ==
    \/ \E a \in InitArgs : a.ok /\ Window_init("t1", "w1", a)
    \/ Window_process_event_pending("t1", "w1")
    \/ Window_process_event_peek("t1")
    \/ Window_process_event_next("t1")
    \/ ServerStep

SpecEvents == Init /\ [][NextEvents]_vars

\* Two windows bound to one parent; one thread runs process_event on either
\* while the server sends events.
NextShared ==
    \/ \E o \in Objs : Window_init("t1", o, [ok |-> TRUE, parent |-> 11])
    \/ \E o \in Objs : Window_process_event_pending("t1", o)
    \/ Window_process_event_peek("t1")
    \/ Window_process_event_next("t1")
    \/ \E size \in Sizes : ParentConfigure(11, size)
    \/ \E id \in Ids : WindowExpose(id, 0)

SpecShared == Init /\ [][NextShared]_vars

\* Two threads share the Display: t1 binds a window to one parent and runs
\* its process_event; t2 waits for events and discards them.
NextThreads ==
    \/ Window_init("t1", "w1", [ok |-> TRUE, parent |-> 11])
    \/ Window_process_event_pending("t1", "w1")
    \/ Window_process_event_peek("t1")
    \/ Window_process_event_next("t1")
    \/ Display_wait_for_event_begin("t2")
    \/ Display_wait_for_event_peek("t2")
    \/ Display_wait_for_event_end("t2")
    \/ Display_discard_event_begin("t2")
    \/ Display_discard_event_next("t2")
    \/ Display_discard_event_end("t2")
    \/ \E size \in Sizes : ParentConfigure(11, size)
    \/ ParentUnmap(11)
    \/ \E id \in Ids, count \in {0, 1} : WindowExpose(id, count)

SpecThreads == Init /\ [][NextThreads]_vars

\* Two threads share the Display: either waits for events or discards them,
\* binds a window (a geometry query) or queries the info connection.
NextQuery ==
    \/ \E t \in Threads :
          \/ \E a \in InitArgs : a.ok /\ Window_init(t, "w1", a)
          \/ \E reply \in QueryTreeReplies : Display_get_child_window_ids(t, reply)
          \/ \E reply \in ClientIdReplies : Display_get_window_pid(t, reply)
          \/ Display_wait_for_event_begin(t)
          \/ Display_wait_for_event_peek(t)
          \/ Display_wait_for_event_end(t)
          \/ Display_discard_event_begin(t)
          \/ Display_discard_event_next(t)
          \/ Display_discard_event_end(t)
    \/ \E p \in Parents : ParentUnmap(p)
    \/ \E id \in Ids : WindowExpose(id, 0)

SpecQuery == Init /\ [][NextQuery]_vars

\* Two threads query the info connection, for the children of a window and
\* the pid behind one, while either binds a window; nobody listens for events.
NextInfo ==
    \E t \in Threads :
        \/ \E a \in InitArgs : a.ok /\ Window_init(t, "w1", a)
        \/ \E reply \in QueryTreeReplies : Display_get_child_window_ids(t, reply)
        \/ \E reply \in ClientIdReplies : Display_get_window_pid(t, reply)

SpecInfo == Init /\ [][NextInfo]_vars

\* Two threads share one Display slot: they create the Display, run its
\* __init__ again, read its attributes and let it go, against any server.
NextSession ==
    \E t \in Threads :
        \/ \E x \in XServers : Display_new(t, x)
        \/ \E x \in XServers : Display_init(t, x)
        \/ Display_dealloc(t)
        \/ \E name \in PropertyNames : Display_getattr(t, name)

SpecSession == Init /\ [][NextSession]_vars

\* ================================================================== claims
\* C1: while a thread is blocked in wait_for_event or discard_event, it holds
\* neither the interpreter lock nor the info connection, so every query
\* another thread issues on the info connection (owner pid, children and
\* their properties, the geometry query of a bind) can run at once, without
\* an event arriving: the two threads never wait for each other.
C1_QueryNeverWaitsForWaiter ==
    \A t \in Threads :
        (pc[t] \in {"wait_peek", "discard_next"} /\ Blocked(t)) =>
            /\ gil # t
            /\ ReadsOn(t) # "info_display"
            /\ \A u \in Threads \ {t} :
                  pc[u] = "idle" =>
                      /\ ENABLED (\E reply \in ClientIdReplies :
                                     Display_get_window_pid(u, reply))
                      /\ ENABLED (\E reply \in QueryTreeReplies :
                                     Display_get_child_window_ids(u, reply))
                      /\ server.next <= MaxWindows =>
                             ENABLED Window_init(u, "w1", [ok |-> TRUE, parent |-> 11])

\* C1 witness: a pid query returned its result while the other thread sat
\* blocked in wait_for_event.
C1_Witness ==
    \E t \in Threads, u \in Threads :
        /\ t # u
        /\ pc[t] = "wait_peek" /\ Blocked(t)
        /\ ret[u].op = "get_window_pid" /\ ret[u].value = "int"
        /\ t \in ret[u].waiting

\* The event is an exposure of the object's own window, or a structural
\* change of the object's parent.
OwnExpose(self, ev) == ev.type = "Expose" /\ ev.window = self.window
ParentChange(self, ev) == ev.type = "ConfigureNotify" /\ ev.window = self.parent

\* In this step the process_event call of thread t removes the head event,
\* dispatches on it and returns True.
Consumes(t) == pc[t] = "next" /\ pc'[t] = "idle"

\* In this step a process_event call of thread t returns False.
Declines(t) ==
    /\ pc'[t] = "idle"
    /\ ret'[t].op = "process_event" /\ ret'[t].value = "False"
    /\ pc[t] = "peek" \/ ret'[t] # ret[t]

\* C2: process_event goes past XPending only when an event is queued and
\* removes an event only when the head is an exposure of its own window or a
\* structural change of its parent; on any other head it returns False at the
\* peek, and a call that returns False leaves the queue, the stored size and
\* the server as they were.
C2_DeclineLeavesQueue ==
    [][\A t \in Threads :
          /\ (pc[t] = "idle" /\ queue = <<>>) => pc'[t] = "idle"
          /\ Consumes(t) =>
                /\ queue # <<>>
                /\ OwnExpose(win[cur[t]], Head(queue))
                      \/ ParentChange(win[cur[t]], Head(queue))
          /\ (/\ pc[t] = "peek" /\ pc'[t] # "peek"
              /\ ~OwnExpose(win[cur[t]], Head(queue))
              /\ ~ParentChange(win[cur[t]], Head(queue))) => Declines(t)
          /\ Declines(t) => /\ queue' = queue
                            /\ win' = win
                            /\ server' = server
      ]_vars

\* C2 witness: a call returned False on a queued event that is neither, and
\* that event is still the head of the queue.
C2_Witness ==
    \E t \in Threads :
        /\ pc[t] = "idle"
        /\ ret[t].op = "process_event" /\ ret[t].value = "False"
        /\ ret[t].event.type = "ConfigureNotify"
        /\ ret[t].event.window # ret[t].before.parent
        /\ queue # <<>> /\ Head(queue) = ret[t].event
        /\ win[ret[t].obj] = ret[t].before

\* The size an event reports, and the size an object stores.
EventSize(ev) == [width |-> ev.width, height |-> ev.height]
StoredSize(self) == [width |-> self.width, height |-> self.height]

\* C3 (as claimed): a structural change of the parent that only shrinks the
\* window resizes the overlay and updates the stored size without calling
\* draw(); the connection is only flushed.
C3_ShrinkNoRedraw ==
    [][\A t \in Threads :
          (/\ Consumes(t)
           /\ ParentChange(win[cur[t]], Head(queue))
           /\ Head(queue).width <= win[cur[t]].width
           /\ Head(queue).height <= win[cur[t]].height
           /\ EventSize(Head(queue)) # StoredSize(win[cur[t]]))
          => /\ StoredSize(win'[cur[t]]) = EventSize(Head(queue))
             /\ server'.size[win[cur[t]].window] = EventSize(Head(queue))
             /\ ret'[t].calls = <<"XResizeWindow", "XFlush">>
      ]_vars

\* C4: a structural change of the parent that grows the window in at least
\* one dimension resizes the server-side overlay to the reported size, stores
\* exactly that size, and calls draw().
C4_GrowthResizesAndRedraws ==
    [][\A t \in Threads :
          (/\ Consumes(t)
           /\ ParentChange(win[cur[t]], Head(queue))
           /\ \/ Head(queue).width > win[cur[t]].width
              \/ Head(queue).height > win[cur[t]].height)
          => /\ StoredSize(win'[cur[t]]) = EventSize(Head(queue))
             /\ server'.size[win[cur[t]].window] = EventSize(Head(queue))
             /\ ret'[t].value = "True"
             /\ ret'[t].calls = <<"XResizeWindow", "draw", "XFlush">>
      ]_vars

\* C4 witness: a call consumed a structural change of its parent that grew
\* the width and shrank the height, and the window stores the reported size.
C4_Witness ==
    \E t \in Threads :
        /\ ret[t].op = "process_event" /\ ret[t].value = "True"
        /\ ParentChange(ret[t].before, ret[t].event)
        /\ ret[t].event.width > ret[t].before.width
        /\ ret[t].event.height < ret[t].before.height
        /\ "draw" \in {ret[t].calls[i] : i \in 1..Len(ret[t].calls)}
        /\ StoredSize(win[ret[t].obj]) = EventSize(ret[t].event)

\* C5: a structural change of the parent that reports the stored size issues
\* no resize and no draw(): the event is removed, the connection is flushed,
\* and the stored size and the server stay as they were.
C5_SameSizeOnlyFlushes ==
    [][\A t \in Threads :
          (/\ Consumes(t)
           /\ ParentChange(win[cur[t]], Head(queue))
           /\ EventSize(Head(queue)) = StoredSize(win[cur[t]]))
          => /\ win' = win
             /\ server' = server
             /\ queue' = Tail(queue)
             /\ ret'[t].calls = <<"XFlush">>
      ]_vars

\* C5 witness: a call consumed a structural change of its parent that
\* reported the size the window had stored.
C5_Witness ==
    \E t \in Threads :
        /\ ret[t].op = "process_event" /\ ret[t].value = "True"
        /\ ParentChange(ret[t].before, ret[t].event)
        /\ EventSize(ret[t].event) = StoredSize(ret[t].before)
        /\ ret[t].calls = <<"XFlush">>

\* The rectangles a well-formed list of tuples names.
Rectangles(py_area) ==
    [i \in 1..Len(py_area) |->
        [x |-> py_area[i].items[1], y |-> py_area[i].items[2],
         width |-> py_area[i].items[3], height |-> py_area[i].items[4]]]

\* In this step thread t completes a set_visibility_mask call on object o
\* that returns None.
SetsMask(t, o) ==
    /\ ret'[t] # ret[t]
    /\ ret'[t].op = "set_visibility_mask" /\ ret'[t].obj = o
    /\ ret'[t].value = "None"

FinaliseCalls == <<"XChangeWindowAttributes", "XDestroyWindow", "XFlush">>
CreateCalls ==
    <<"XGetGeometry", "XCreateWindow", "XChangeWindowAttributes",
      "XShapeCombineRectangles", "XShapeCombineRectangles", "XMapWindow">>

\* C7: an object owns at most one live server window, the one its window
\* field names; every other window it created has been destroyed exactly
\* once, and a bind() of a bound object destroys the old window once, before
\* it creates the new one.
C7_RebindDestroysOnce ==
    /\ \A o \in Objs :
          /\ Cardinality(created[o] \cap server.live) <= 1
          /\ win[o].window # 0 => win[o].window \in created[o]
          /\ \A id \in created[o] :
                IF id = win[o].window
                THEN id \in server.live /\ server.destroyed[id] = 0
                ELSE id \notin server.live /\ server.destroyed[id] = 1
    /\ \A t \in Threads :
          (ret[t].op = "init" /\ ret[t].value = "Success") =>
              ret[t].calls = IF ret[t].before.window # 0
                             THEN FinaliseCalls \o CreateCalls
                             ELSE CreateCalls

\* C7 witness: bind() ran on a bound object, which has now created two
\* windows and owns the second.
C7_Witness ==
    \E t \in Threads :
        /\ ret[t].op = "init" /\ ret[t].value = "Success"
        /\ ret[t].before.window # 0
        /\ Cardinality(created[ret[t].obj]) = 2
        /\ win[ret[t].obj].window \in server.live
        /\ server.destroyed[ret[t].before.window] = 1

\* C8: the window field is non-zero exactly while the object has a created,
\* not yet finalised server window (and a Display reference).  Finalising a
\* bound window unsubscribes the parent, destroys the window and flushes;
\* finalising a window that has none (never bound, or finalised before)
\* issues no request; either way nothing is raised and the object is left
\* with window zero and no Display reference.
C8_FinaliseIdempotent ==
    /\ \A o \in Objs :
          /\ win[o].window # 0 <=> win[o].display_pyobject # NULL
          /\ win[o].window # 0 =>
                win[o].window \in created[o] \cap server.live
          /\ win[o].window = 0 => created[o] \cap server.live = {}
    /\ \A t \in Threads :
          ret[t].op = "dealloc" =>
              /\ ret[t].value = "None"
              /\ win[ret[t].obj].window = 0
              /\ win[ret[t].obj].display_pyobject = NULL
              /\ IF ret[t].before.window # 0
                 THEN /\ ret[t].calls = FinaliseCalls
                      /\ server.event_mask[ret[t].before.parent] = NoEventMask
                      /\ server.destroyed[ret[t].before.window] = 1
                 ELSE ret[t].calls = <<>>

\* C8 witness: a finalise of an object that was bound and already finalised
\* (its window is destroyed, its fields cleared) returned without a request.
C8_Witness ==
    \E t \in Threads :
        /\ ret[t].op = "dealloc"
        /\ ret[t].before.window = 0 /\ ret[t].before.parent # 0
        /\ ret[t].before.display_pyobject = NULL
        /\ ret[t].calls = <<>>
        /\ created[ret[t].obj] # {}

\* C9 (as claimed): process_event never waits for an event to arrive: while
\* it is in XPeekEvent or XNextEvent the queue holds an event.
C9_ProcessEventNeverWaits ==
    \A t \in Threads : pc[t] \in {"peek", "next"} => queue # <<>>

\* C10 (as claimed): once the queue is drained, every bound window stores, and
\* has on the server, the size the last ConfigureNotify of its parent reported.
C10_SizeTracksParent ==
    (queue = <<>> /\ \A t \in Threads : pc[t] = "idle") =>
        \A o \in Objs :
            (win[o].window # 0 /\ reported[o] # NoSize) =>
                /\ StoredSize(win[o]) = reported[o]
                /\ server.size[win[o].window] = reported[o]

\* C11 (as claimed): a bind() whose server calls fail, as they do for a parent
\* id the server does not know, raises an error and leaves the object unbound:
\* window is zero and no server window of the object exists.
C11_FailedBindLeavesUnbound ==
    [][\A t \in Threads, o \in Objs :
          Window_init(t, o, [ok |-> TRUE, parent |-> BadParent]) =>
              /\ ret'[t].value = "Error"
              /\ win'[o].window = 0
              /\ created[o] \cap server'.live = {}
      ]_vars

\* A list element the claim calls malformed: not a tuple, not four items, a
\* position outside a signed 16-bit value or an extent outside an unsigned one.
Malformed(item) ==
    \/ ~item.tuple
    \/ Len(item.items) # 4
    \/ \E i \in {1, 2} : item.items[i] \notin -(HalfWord \div 2)..(HalfWord \div 2 - 1)
    \/ \E i \in {3, 4} : item.items[i] \notin 0..(HalfWord - 1)

\* C14 (as claimed): a set_visibility_mask call whose list holds a malformed
\* element at any index raises and issues no request, so the visibility mask
\* on the server stays as it was.
C14_MalformedRejected ==
    \A t \in Threads :
        (/\ ret[t].op = "set_visibility_mask"
         /\ \E i \in 1..Len(ret[t].data) : Malformed(ret[t].data[i]))
        => /\ ret[t].value = "ValueError"
           /\ ret[t].calls = <<>>

\* C12 (as claimed): when both connections open and a required extension is
\* missing, opening the Display raises the error that names the extension and
\* leaves neither connection open.
C12_MissingExtensionClosesBoth ==
    [][\A t \in Threads, x \in XServers :
          (/\ x.event /\ x.info /\ (~x.XRes \/ ~x.XShm)
           /\ Display_new(t, x) \/ Display_init(t, x))
          => /\ ret'[t].value = IF ~x.XRes THEN XResRequired ELSE XextRequired
             /\ display'.event_display = NULL
             /\ display'.info_display = NULL
      ]_vars

\* C13 (as claimed): in every state between two operations the event
\* connection is open exactly when the info connection is.
C13_OpenTogether ==
    display.event_display = "open" <=> display.info_display = "open"

\* C20 (as claimed): screen_height returns the height and screen_width the
\* width stored in the Display when its connections were opened.
C20_ScreenGetters ==
    [][\A t \in Threads :
          /\ Display_getattr(t, "screen_height") =>
                 ret'[t].data = <<display.screen_height>>
          /\ Display_getattr(t, "screen_width") =>
                 ret'[t].data = <<display.screen_width>>
      ]_vars

\* C15: wait_for_event gets past XPeekEvent only while an event is queued and
\* no step of it changes the queue; discard_event gets past XNextEvent only
\* by removing the head of the queue, whatever window it is for; an event
\* leaves the queue only in such a step or in a process_event that accepted
\* it, one head event per step; every other change of the queue is an event
\* the server appends.
C15_WaitKeepsDiscardRemovesHead ==
    [][/\ \A t \in Threads :
             /\ (pc[t] = "wait_peek" /\ pc'[t] # pc[t]) =>
                    /\ queue # <<>>
                    /\ pc'[t] = "wait_end"
             /\ (pc'[t] # pc[t] /\ (pc'[t] \in {"wait_peek", "wait_end"}
                                     \/ pc[t] = "wait_end")) => queue' = queue
             /\ (pc[t] = "discard_next" /\ pc'[t] # pc[t]) =>
                    /\ queue # <<>>
                    /\ queue' = Tail(queue)
                    /\ event'[t] = Head(queue)
                    /\ pc'[t] = "discard_end"
             /\ pc'[t] = "discard_end" => pc[t] \in {"discard_next", "discard_end"}
       /\ Len(queue') < Len(queue) =>
             /\ queue' = Tail(queue)
             /\ \E t \in Threads :
                   \/ pc[t] = "discard_next" /\ pc'[t] = "discard_end"
                   \/ Consumes(t)
       /\ (queue' # queue /\ Len(queue') >= Len(queue)) =>
             /\ pc' = pc
             /\ queue' = Append(queue, queue'[Len(queue')])
      ]_vars

\* C15 witness: discard_event removed an event of the parent that no
\* process_event accepts while another event stayed queued behind it.
C15_Witness ==
    \E t \in Threads :
        /\ pc[t] = "discard_end"
        /\ event[t].type = "UnmapNotify"
        /\ queue # <<>>

\* C16: a process_event that consumes an exposure of its own window removes
\* the event and returns True with the stored size unchanged; it calls draw()
\* when the event's count is zero and issues no request otherwise.
C16_LastExposeDraws ==
    [][\A t \in Threads :
          (Consumes(t) /\ OwnExpose(win[cur[t]], Head(queue))) =>
              /\ queue' = Tail(queue)
              /\ win' = win
              /\ ret'[t].value = "True"
              /\ ret'[t].event = Head(queue)
              /\ ret'[t].calls = IF Head(queue).count = 0
                                 THEN <<"draw", "XFlush">> ELSE <<>>
      ]_vars

\* C16 witness: a call consumed an exposure of its own window with more to
\* follow, returned True and did not draw.
C16_Witness ==
    \E t \in Threads :
        /\ ret[t].op = "process_event" /\ ret[t].value = "True"
        /\ OwnExpose(ret[t].before, ret[t].event)
        /\ ret[t].event.count = 1
        /\ ret[t].calls = <<>>
        /\ win[ret[t].obj] = ret[t].before

\* The children of a reply that carry at least one of the four properties,
\* in the order of the reply.
WithFilterProperty(children) ==
    SelectSeq(children, LAMBDA w : ServerProps(w) \cap Atoms # {})

\* C17: get_child_window_ids raises when XQueryTree fails; otherwise it
\* returns the list of exactly the children that carry at least one of the four
\* properties, in the order of the server's reply (the empty list when the
\* window has no children).
C17_ListChildrenExact ==
    [][\A t \in Threads, reply \in QueryTreeReplies :
          Display_get_child_window_ids(t, reply) =>
              IF reply.status = 0
              THEN ret'[t].value = "OSError"
              ELSE /\ ret'[t].value = "list"
                   /\ ret'[t].data = WithFilterProperty(reply.children)
      ]_vars

\* C17 witness: a call returned three of four children, in the server's
\* order, leaving out the one without any of the properties.
C17_Witness ==
    \E t \in Threads :
        /\ ret[t].op = "get_child_window_ids" /\ ret[t].value = "list"
        /\ ret[t].data = <<24, 25, 21>>

\* C18: when XResQueryClientIds succeeds, get_window_pid returns the pid of a
\* pid-typed record of the reply, and None when the reply is empty or holds
\* no pid-typed record.
C18_PidOfPidRecord ==
    [][\A t \in Threads, reply \in ClientIdReplies :
          (Display_get_window_pid(t, reply) /\ reply.status = "Success") =>
              LET pids == {i \in 1..Len(reply.ids) :
                              reply.ids[i].type = XRES_CLIENT_ID_PID}
              IN  IF pids = {}
                  THEN ret'[t].value = "None" /\ ret'[t].data = <<>>
                  ELSE /\ ret'[t].value = "int"
                       /\ \E i \in pids : ret'[t].data = <<reply.ids[i].value>>
      ]_vars

\* C18 witness: a call returned the pid of the pid-typed record that followed
\* a record of another type.
C18_Witness ==
    \E t \in Threads :
        /\ ret[t].op = "get_window_pid" /\ ret[t].value = "int"
        /\ ret[t].data = <<42>>

\* C19 (as claimed): get_window_pid raises when XResQueryClientIds itself
\* fails, and leaves the Display and every window as they were.
C19_FailedPidQueryRaises ==
    [][\A t \in Threads, reply \in ClientIdReplies :
          (Display_get_window_pid(t, reply) /\ reply.status # "Success") =>
              /\ ret'[t].value = "OSError"
              /\ display' = display
              /\ win' = win
      ]_vars

\* C21 (as claimed): the event a process_event removes and dispatches on is
\* the event it peeked and accepted, whatever a concurrent discard_event
\* does: a ConfigureNotify it dispatches on is for its own parent and an
\* Expose it dispatches on is for its own window.
C21_DispatchesPeekedEvent ==
    [][\A t \in Threads :
          Consumes(t) =>
              /\ Head(queue) = event[t]
              /\ Head(queue).type = "ConfigureNotify" =>
                     Head(queue).window = win[cur[t]].parent
              /\ Head(queue).type = "Expose" =>
                     Head(queue).window = win[cur[t]].window
      ]_vars

\* C22 (as claimed): finalising or rebinding one window leaves every other
\* bound window as it was: its fields, its server window and that window's
\* size, and the event mask selected on its parent, also when both windows
\* have the same parent.
C22_OtherWindowsUnaffected ==
    [][\A t \in Threads, o \in Objs, other \in Objs :
          (/\ other # o
           /\ win[other].window # 0
           /\ \/ Window_dealloc(t, o)
              \/ \E a \in InitArgs : Window_init(t, o, a))
          => /\ win'[other] = win[other]
             /\ win[other].window \in server'.live
             /\ server'.size[win[other].window] = server.size[win[other].window]
             /\ server'.event_mask[win[other].parent] =
                    server.event_mask[win[other].parent]
      ]_vars
====
